---------------------------- MODULE Spec2Model ----------------------------
(***************************************************************************)
(* A model of RandomIdGenerator (src/src/lib.rs): an iterator over a keyed *)
(* permutation of the decimal numbers of a fixed width.                    *)
(*                                                                         *)
(* State: the four fields of the struct (key, tweak, digits, next), the    *)
(* two properties of the build and of the linked fpe crate the code's      *)
(* behaviour depends on (overflow checks on or off, FF1 accepting the      *)
(* numeral strings or rejecting them), whether the instance is still       *)
(* usable, and the history of the calls made on it.                        *)
(*                                                                         *)
(* Every method is a pure operator from the cursor to the outcome          *)
(* [next, res, st]; the actions apply the operators and record the call.   *)
(***************************************************************************)
EXTENDS Integers, Sequences, FiniteSets

VARIABLES
    key,            \* field `key`: selects the permutation
    tweak,          \* field `tweak`: selects the permutation, with key
    digits,         \* field `digits`
    next,           \* field `next`: the cursor, a u16
    accepts,        \* the linked FF1 accepts the generator's numeral strings
    overflowChecks, \* the build panics on integer overflow (debug) or wraps
    status,         \* "live", "consumed" (count/last took self), "panicked"
    hist            \* the calls made so far, oldest first

vars == <<key, tweak, digits, next, accepts, overflowChecks, status, hist>>

---------------------------------------------------------------------------
(* Bounds of the model. *)
MaxDigits == 2      \* widths 1..MaxDigits
MaxCalls == 3       \* calls per behaviour of Spec
MaxSteps == 12      \* next() calls per behaviour of SpecSteps
MaxSkip == 1        \* nth arguments 0..MaxSkip, besides the boundary ones

(* Program constants. *)
U16Mod == 65536     \* the cursor, the digits and the results are u16
Radix == 10

Keys == {0, 3}
Tweaks == {0}       \* every construction in the repository passes tweak 0

None == <<>>
Some(v) == <<v>>

---------------------------------------------------------------------------
(* The digit codec. *)

RECURSIVE PushDigits(_)
\* the first loop of split_number_digits: least significant digit first
PushDigits(number) ==
    IF number > 0
        THEN <<number % 10>> \o PushDigits(number \div 10)
        ELSE <<>>

RECURSIVE PushZeros(_)
\* the second loop: zeros are pushed while the length is below `digits`
PushZeros(ds) ==
    IF Len(ds) < digits THEN PushZeros(Append(ds, 0)) ELSE ds

Reverse(ds) == [i \in 1..Len(ds) |-> ds[Len(ds) + 1 - i]]

\* split_number_digits without digits.reverse()
SplitLeastFirst(number) == PushZeros(PushDigits(number))

SplitNumberDigits(number) == Reverse(PushZeros(PushDigits(number)))

RECURSIVE FoldDigits(_, _)
\* the left fold acc * 10 + digit, in u16 arithmetic of a release build
FoldDigits(acc, ds) ==
    IF ds = <<>>
        THEN acc
        ELSE FoldDigits((acc * 10 + Head(ds)) % U16Mod, Tail(ds))

\* join_number_digits folding from the last digit
JoinFromTheRight(ds) == FoldDigits(0, Reverse(ds))

JoinNumberDigits(ds) == FoldDigits(0, ds)

RECURSIVE WideFold(_, _)
WideFold(acc, ds) ==
    IF ds = <<>> THEN acc ELSE WideFold(acc * 10 + Head(ds), Tail(ds))

\* the fold's intermediate values never decrease, so some acc * 10 + digit
\* leaves u16 exactly when the unbounded fold does
JoinOverflows(ds) == WideFold(0, ds) >= U16Mod

---------------------------------------------------------------------------
(* The encryption capability: FF1 of the fpe crate, radix 10. *)

\* Any keyed bijection of the numeral strings of each length stands for FF1:
\* the digits are reversed and digit i is shifted by (key + tweak) * i.
Permute(x) ==
    [i \in 1..Len(x) |-> (x[Len(x) + 1 - i] + (key + tweak) * i) % Radix]

IsValid(x) == \A i \in 1..Len(x) : x[i] < Radix

\* FF1::new(..).ok()? and ff.encrypt(..).ok()?: None is an Err of either
FF1Encrypt(x) ==
    IF accepts /\ IsValid(x) THEN Some(Permute(x)) ELSE None

---------------------------------------------------------------------------
(* The methods. *)

\* what a call leaves: the cursor, the result, the instance's status and the
\* numeral strings it handed to the capability
Outcome(c, r, s) == [next |-> c, res |-> r, st |-> s, inputs |-> <<>>]

Panic(c) == Outcome(c, None, "panicked")

\* 10u16.pow(digits); digits stays within 1..4, where the power fits u16
Length == (10 ^ digits) % U16Mod

RemainingOverflows(c) == Length - c < 0

Remaining(c) == (Length - c + U16Mod) % U16Mod

\* next with the cursor advanced before the capability is called
IterNextCountsFailure(c) ==
    LET input == SplitNumberDigits(c)
        enc == FF1Encrypt(input)
        o == IF enc = None
                 THEN Outcome((c + 1) % U16Mod, None, "live")
             ELSE IF c + 1 >= U16Mod /\ overflowChecks
                 THEN Panic(c)
             ELSE IF JoinOverflows(enc[1]) /\ overflowChecks
                 THEN Panic((c + 1) % U16Mod)
             ELSE Outcome((c + 1) % U16Mod,
                          Some(JoinNumberDigits(enc[1])), "live")
    IN  [o EXCEPT !.inputs = <<input>>]

\* next with unwrap() in place of .ok()?: an Err aborts the call
IterNextUnwraps(c) ==
    LET input == SplitNumberDigits(c)
        enc == FF1Encrypt(input)
        o == IF enc = None
                 THEN Panic(c)
             ELSE IF c + 1 >= U16Mod /\ overflowChecks
                 THEN Panic(c)
             ELSE IF JoinOverflows(enc[1]) /\ overflowChecks
                 THEN Panic((c + 1) % U16Mod)
             ELSE Outcome((c + 1) % U16Mod,
                          Some(JoinNumberDigits(enc[1])), "live")
    IN  [o EXCEPT !.inputs = <<input>>]

IterNext(c) ==
    LET input == SplitNumberDigits(c)
        enc == FF1Encrypt(input)
        o == IF enc = None
                 THEN Outcome(c, None, "live")
             ELSE IF c + 1 >= U16Mod /\ overflowChecks
                 THEN Panic(c)
             ELSE IF JoinOverflows(enc[1]) /\ overflowChecks
                 THEN Panic((c + 1) % U16Mod)
             ELSE Outcome((c + 1) % U16Mod,
                          Some(JoinNumberDigits(enc[1])), "live")
    IN  [o EXCEPT !.inputs = <<input>>]

SizeHint(c) ==
    IF RemainingOverflows(c) /\ overflowChecks
        THEN Panic(c)
        ELSE Outcome(c, <<Remaining(c), Remaining(c)>>, "live")

Count(c) ==
    IF RemainingOverflows(c) /\ overflowChecks
        THEN Panic(c)
        ELSE Outcome(Length, <<Remaining(c)>>, "consumed")

\* last that jumps to len() instead of len() - 1
LastJumpsToLen(c) ==
    IF c >= Length
        THEN Outcome(c, None, "consumed")
        ELSE LET o == IterNext(Length) IN
             [o EXCEPT !.st = IF @ = "live" THEN "consumed" ELSE @]

Last(c) ==
    IF c >= Length
        THEN Outcome(c, None, "consumed")
        ELSE LET o == IterNext(Length - 1) IN
             [o EXCEPT !.st = IF @ = "live" THEN "consumed" ELSE @]

\* nth with the skipped range one too long
NthSkipsOneMore(c, n) ==
    LET n16 == n % U16Mod IN
    IF c + n16 >= U16Mod /\ overflowChecks
        THEN Panic(c)
    ELSE IF (c + n16) % U16Mod >= Length
        THEN Outcome(c, None, "live")
    ELSE IterNext((c + n16 + 1) % U16Mod)

Nth(c, n) ==
    LET n16 == n % U16Mod IN
    IF c + n16 >= U16Mod /\ overflowChecks
        THEN Panic(c)
    ELSE IF (c + n16) % U16Mod >= Length
        THEN Outcome(c, None, "live")
    ELSE IterNext((c + n16) % U16Mod)

---------------------------------------------------------------------------
(* The state machine. *)

Call(op, n, o) ==
    /\ next' = o.next
    /\ status' = o.st
    /\ hist' = Append(hist, [op |-> op, n |-> n, pre |-> next,
                             res |-> o.res, post |-> o.next, st |-> o.st,
                             inputs |-> o.inputs])
    /\ UNCHANGED <<key, tweak, digits, accepts, overflowChecks>>

NthArgs == (0..MaxSkip) \cup {Length - 2, Length - 1, Length,
                              U16Mod - 1, U16Mod}

Init ==
    /\ key \in Keys
    /\ tweak \in Tweaks
    /\ digits \in 1..MaxDigits
    /\ accepts \in BOOLEAN
    /\ overflowChecks \in BOOLEAN
    /\ next = 0
    /\ status = "live"
    /\ hist = <<>>

Callable == status = "live" /\ Len(hist) < MaxCalls

CallNext == Callable /\ Call("next", 0, IterNext(next))

CallNth(n) == Callable /\ Call("nth", n, Nth(next, n))

CallSizeHint == Callable /\ Call("size_hint", 0, SizeHint(next))

CallCount == Callable /\ Call("count", 0, Count(next))

CallLast == Callable /\ Call("last", 0, Last(next))

Next ==
    \/ CallNext
    \/ \E n \in NthArgs : CallNth(n)
    \/ CallSizeHint
    \/ CallCount
    \/ CallLast

Spec == Init /\ [][Next]_vars

\* a caller that only steps: the loop of collect() and of the tests
StepOnly ==
    /\ status = "live"
    /\ Len(hist) < MaxSteps
    /\ Call("next", 0, IterNext(next))

SpecSteps == Init /\ [][StepOnly]_vars

\* a caller that steps some times and then asks for the last element
LastAfterSteps == status = "live" /\ Call("last", 0, Last(next))

NextLast == StepOnly \/ LastAfterSteps

SpecLast == Init /\ [][NextLast]_vars

\* the codec alone: a number below 10^digits is split and joined again, for
\* every width whose power of ten fits u16
MaxWidth == 4

InitCodec ==
    /\ key \in Keys
    /\ tweak \in Tweaks
    /\ digits \in 1..MaxWidth
    /\ accepts = TRUE
    /\ overflowChecks \in BOOLEAN
    /\ next = 0
    /\ status = "live"
    /\ hist = <<>>

RoundTrip(number) ==
    LET ds == SplitNumberDigits(number) IN
    [op |-> "codec", number |-> number, split |-> ds,
     join |-> JoinNumberDigits(ds),
     st |-> IF JoinOverflows(ds) /\ overflowChecks
                THEN "panicked" ELSE "live"]

Encode(number) ==
    /\ hist = <<>>
    /\ hist' = <<RoundTrip(number)>>
    /\ UNCHANGED <<key, tweak, digits, next, accepts, overflowChecks, status>>

NextCodec == \E number \in 0..(Length - 1) : Encode(number)

SpecCodec == InitCodec /\ [][NextCodec]_vars

TypeOK ==
    /\ next \in 0..(U16Mod - 1)
    /\ status \in {"live", "consumed", "panicked"}
    /\ Len(hist) <= MaxSteps + 1

---------------------------------------------------------------------------
(* What the claims speak of. *)

Calls == 1..Len(hist)

Returned(i) == hist[i].res # None

\* the calls that return an Option of a value
Draws == {i \in Calls : hist[i].op \in {"next", "nth", "last"}}

\* the index of the first next() that returned None, or one past the last call
FirstNone ==
    IF \E i \in Calls : ~Returned(i)
        THEN CHOOSE i \in Calls :
                 ~Returned(i) /\ \A j \in 1..(i - 1) : Returned(j)
        ELSE Len(hist) + 1

\* how many of the calls before call i returned a value
Successes(i) == Cardinality({j \in 1..(i - 1) : Returned(j)})

RECURSIVE StepTimes(_, _)
\* k >= 1 consecutive next() calls from cursor c: the outcome of the last of
\* them (the first k \div 2 calls, then the others from where those end)
StepTimes(c, k) ==
    IF k <= 1
        THEN IterNext(c)
        ELSE LET o == StepTimes(c, k \div 2) IN
             IF o.st # "live" THEN o ELSE StepTimes(o.next, k - k \div 2)

---------------------------------------------------------------------------
(* C1 (SpecSteps): with an accepting capability, the values that repeated  *)
(* next() calls on a fresh instance return before the first None are the   *)
(* numbers 0..10^digits - 1, each exactly once: all in range, no two       *)
(* equal, at most 10^digits of them, and all of them once None came.       *)
C1_StepsEnumerateDomain ==
    accepts =>
        LET m == FirstNone - 1 IN
        /\ \A i \in 1..m : hist[i].res[1] \in 0..(Length - 1)
        /\ \A i, j \in 1..m : i # j => hist[i].res[1] # hist[j].res[1]
        /\ m <= Length
        /\ FirstNone <= Len(hist) =>
               {hist[i].res[1] : i \in 1..m} = 0..(Length - 1)

(* C2 (SpecSteps): once 10^digits next() calls on a fresh instance have    *)
(* returned a value, every further next() returns None and the cursor      *)
(* stays at 10^digits.                                                     *)
C2_ExhaustionTerminal ==
    \A i \in Calls :
        Successes(i) >= Length =>
            /\ hist[i].res = None
            /\ hist[i].post = Length

(* C3: every value next, nth or last returns lies in 0..10^digits - 1.     *)
C3_ValuesInRange ==
    \A i \in Draws :
        Returned(i) => hist[i].res[1] \in 0..(Length - 1)

(* C4: no two next()/nth() calls on an instance return the same number.    *)
C4_NoRepetition ==
    \A i, j \in Calls :
        /\ i < j
        /\ hist[i].op \in {"next", "nth"} /\ hist[j].op \in {"next", "nth"}
        /\ Returned(i) /\ Returned(j)
        => hist[i].res[1] # hist[j].res[1]

(* C5: after any sequence of next, nth and size_hint calls the cursor is   *)
(* within 0..10^digits.                                                    *)
C5_CursorBound ==
    (\A i \in Calls : hist[i].op \in {"next", "nth", "size_hint"})
        => 0 <= next /\ next <= Length

(* C6: in every reachable state size_hint() returns the pair               *)
(* (10^digits - cursor, 10^digits - cursor).                               *)
C6_SizeHintExact ==
    \A i \in Calls :
        hist[i].op = "size_hint" =>
            /\ hist[i].st = "live"
            /\ hist[i].res = <<Length - hist[i].pre, Length - hist[i].pre>>

(* C7: with an accepting capability, nth(n) returns None and leaves the    *)
(* cursor where it was whenever cursor + n >= 10^digits, and returns a     *)
(* value whenever cursor + n < 10^digits.                                  *)
C7_NthEndOfSequence ==
    accepts =>
        \A i \in Calls :
            hist[i].op = "nth" =>
                IF hist[i].pre + hist[i].n >= Length
                    THEN hist[i].res = None /\ hist[i].post = hist[i].pre
                    ELSE Returned(i)

(* C8: the call just made, if it was an nth(n) with cursor + n below       *)
(* 10^digits, returned what the last of n + 1 next() calls made from the   *)
(* same cursor returns, and when that is a value it left the cursor those  *)
(* calls leave, cursor + n + 1.                                            *)
C8_NthIsRepeatedNext ==
    LET i == Len(hist) IN
    (/\ i > 0
     /\ hist[i].op = "nth"
     /\ hist[i].pre + hist[i].n < Length)
    => LET o == StepTimes(hist[i].pre, hist[i].n + 1) IN
       /\ hist[i].res = o.res
       /\ Returned(i) =>
              /\ hist[i].post = o.next
              /\ hist[i].post = hist[i].pre + hist[i].n + 1

\* an nth that skipped at least two positions from a cursor past the start
C8_Witness ==
    \E i \in Calls :
        /\ hist[i].op = "nth"
        /\ hist[i].n >= 2
        /\ hist[i].pre >= 1
        /\ hist[i].pre + hist[i].n < Length
        /\ Returned(i)

(* C9: with an accepting capability, nth(10^digits - 2) on a fresh         *)
(* instance returns a value and leaves one remaining; a following nth(0)   *)
(* returns a value and leaves none; every next or nth after that returns   *)
(* None and leaves none remaining.                                         *)
C9_NthAtTheEnd ==
    (/\ accepts
     /\ Len(hist) >= 1
     /\ hist[1].op = "nth" /\ hist[1].n = Length - 2)
    => /\ Returned(1)
       /\ Length - hist[1].post = 1
       /\ (Len(hist) >= 2 /\ hist[2].op = "nth" /\ hist[2].n = 0)
          => /\ Returned(2)
             /\ Length - hist[2].post = 0
             /\ \A i \in 3..Len(hist) :
                    hist[i].op \in {"next", "nth"} =>
                        /\ hist[i].res = None
                        /\ Length - hist[i].post = 0

(* C10: count() returns 10^digits - cursor for the state it is called in   *)
(* and sets the cursor to 10^digits.                                       *)
C10_CountDrains ==
    \A i \in Calls :
        hist[i].op = "count" =>
            /\ hist[i].res = <<Length - hist[i].pre>>
            /\ hist[i].post = Length

(* C11 (SpecLast): last() on an instance whose cursor is at or past        *)
(* 10^digits returns None without calling the capability; on any other     *)
(* instance it hands the capability exactly one numeral string, returns    *)
(* what the 10^digits-th next() of a fresh instance returns, and when that *)
(* is a value it leaves the cursor at 10^digits.                           *)
C11_LastIsFinalStep ==
    LET i == Len(hist) IN
    (i > 0 /\ hist[i].op = "last") =>
        IF hist[i].pre >= Length
            THEN hist[i].res = None /\ hist[i].inputs = <<>>
            ELSE /\ hist[i].res = StepTimes(0, Length).res
                 /\ Len(hist[i].inputs) = 1
                 /\ Returned(i) => hist[i].post = Length

\* a last() called after some steps, before the end, that returned a value
C11_Witness ==
    \E i \in Calls :
        /\ hist[i].op = "last"
        /\ hist[i].pre > 0 /\ hist[i].pre < Length - 1
        /\ Returned(i)
        /\ hist[i].post = Length

\* the capability reported an error during call i
Failed(i) ==
    /\ hist[i].inputs # <<>>
    /\ FF1Encrypt(hist[i].inputs[1]) = None

(* C13: a next() during which the capability reports an error returns      *)
(* None and leaves the cursor where it was, and a next() made right after  *)
(* it hands the capability the same numeral string.                        *)
C13_FailedStepKeepsCursor ==
    \A i \in Calls :
        (hist[i].op = "next" /\ Failed(i)) =>
            /\ hist[i].res = None
            /\ hist[i].post = hist[i].pre
            /\ (i < Len(hist) /\ hist[i + 1].op = "next")
                   => hist[i + 1].inputs = hist[i].inputs

\* a failed next() from a cursor past the start, retried
C13_Witness ==
    \E i \in Calls :
        /\ hist[i].op = "next" /\ Failed(i)
        /\ hist[i].pre > 0
        /\ i < Len(hist) /\ hist[i + 1].op = "next"

\* call i is a next or last made with the cursor below 10^digits, or an
\* nth(n) made with cursor + n below 10^digits
InDomain(i) ==
    \/ hist[i].op \in {"next", "last"} /\ hist[i].pre < Length
    \/ hist[i].op = "nth" /\ hist[i].pre + hist[i].n < Length

(* C14 as claimed: next, nth and last never return None, the signal of the *)
(* end of the sequence, while the cursor (for nth, cursor + n) is below    *)
(* 10^digits.                                                              *)
C14_NeverNoneInDomain ==
    \A i \in Draws : InDomain(i) => Returned(i)

(* C14 as amended: an error of the capability during next, nth or last is  *)
(* reported as None, the signal of the end of the sequence, and not by a   *)
(* panic: with the cursor (for nth, cursor + n) below 10^digits these      *)
(* calls return None exactly when the capability reported an error.        *)
C14_FailureIsNone ==
    \A i \in Draws :
        /\ Failed(i) => hist[i].res = None /\ hist[i].st # "panicked"
        /\ InDomain(i) => (hist[i].res = None <=> Failed(i))

\* an nth inside the domain that met an error of the capability
C14_Witness ==
    \E i \in Draws :
        /\ hist[i].op = "nth"
        /\ InDomain(i)
        /\ Failed(i)
        /\ hist[i].res = None

RECURSIVE PositionalValue(_, _)
\* the sum of ds[j] * 10^(Len(ds) - j) over the positions j >= i
PositionalValue(ds, i) ==
    IF i > Len(ds)
        THEN 0
        ELSE ds[i] * 10 ^ (Len(ds) - i) + PositionalValue(ds, i + 1)

(* C15 (SpecCodec): for every width 1..4 and every number below            *)
(* 10^digits, joining the digits the number is split into gives the        *)
(* number back, without overflow.                                          *)
C15_CodecRoundTrip ==
    hist # <<>> =>
        /\ hist[1].st = "live"
        /\ hist[1].join = hist[1].number

\* a number with an inner zero that is padded: 10 at width 3
C15_Witness ==
    /\ hist # <<>>
    /\ digits = 3
    /\ hist[1].number = 10
    /\ hist[1].join = 10

(* C16 (SpecCodec): for every width 1..4 and every number below            *)
(* 10^digits, split_number_digits returns exactly `digits` decimal digits, *)
(* most significant first, whose positional value is the number; so 0, 7   *)
(* and 1234 at width 4 give 0000, 0007 and 1234, and 10 at width 2 gives   *)
(* 10.                                                                     *)
C16_FixedWidthEncoding ==
    hist # <<>> =>
        LET ds == hist[1].split
            v == hist[1].number
        IN  /\ Len(ds) = digits
            /\ \A i \in 1..Len(ds) : ds[i] \in 0..9
            /\ PositionalValue(ds, 1) = v
            /\ (digits = 4 /\ v = 0) => ds = <<0, 0, 0, 0>>
            /\ (digits = 4 /\ v = 7) => ds = <<0, 0, 0, 7>>
            /\ (digits = 4 /\ v = 1234) => ds = <<1, 2, 3, 4>>
            /\ (digits = 2 /\ v = 10) => ds = <<1, 0>>

\* 7 at width 4, split into three zeros and a seven
C16_Witness ==
    /\ hist # <<>>
    /\ digits = 4
    /\ hist[1].number = 7
    /\ hist[1].split = <<0, 0, 0, 7>>

(* C17: every numeral string handed to the capability has exactly `digits` *)
(* digits, and is the encoding of a counter below 10^digits.               *)
C17_DigitSequenceShape ==
    \A i \in Calls :
        \A k \in 1..Len(hist[i].inputs) :
            /\ Len(hist[i].inputs[k]) = digits
            /\ WideFold(0, hist[i].inputs[k]) < Length

RECURSIVE Drain(_, _)
\* up to k consecutive next() calls from cursor c, stopping at the first that
\* returns no value: how many values came, whether the calls stopped, and the
\* cursor (the first k \div 2 calls, then the others)
Drain(c, k) ==
    IF k <= 0
        THEN [n |-> 0, stopped |-> FALSE, next |-> c]
    ELSE IF k = 1
        THEN LET o == IterNext(c) IN
             IF o.res = None
                 THEN [n |-> 0, stopped |-> TRUE, next |-> o.next]
                 ELSE [n |-> 1, stopped |-> FALSE, next |-> o.next]
    ELSE LET a == Drain(c, k \div 2) IN
         IF a.stopped
             THEN a
             ELSE LET b == Drain(a.next, k - k \div 2) IN
                  [n |-> a.n + b.n, stopped |-> b.stopped, next |-> b.next]

(* C18: with an accepting capability, the number the count() just made     *)
(* returned is the number of values that repeated next() calls from the    *)
(* same cursor yield before the first None: that many values come, and     *)
(* then None.                                                              *)
C18_CountIsDrain ==
    LET i == Len(hist) IN
    (accepts /\ i > 0 /\ hist[i].op = "count") =>
        /\ hist[i].st # "panicked"
        /\ LET d == Drain(hist[i].pre, hist[i].res[1] + 1) IN
           d.stopped /\ d.n = hist[i].res[1]

(* C19: an nth(n) with cursor + n below 10^digits during which the         *)
(* capability reports an error leaves the cursor where it was.             *)
C19_FailedSkipKeepsCursor ==
    \A i \in Calls :
        (/\ hist[i].op = "nth"
         /\ hist[i].pre + hist[i].n < Length
         /\ Failed(i))
        => hist[i].post = hist[i].pre

(* C20: with an accepting capability, for every n of usize nth(n) neither  *)
(* panics nor wraps: it returns None and leaves the cursor unchanged       *)
(* exactly when cursor + n >= 10^digits, n taken as the integer it is.     *)
C20_NthBoundExact ==
    accepts =>
        \A i \in Calls :
            hist[i].op = "nth" =>
                /\ hist[i].st = "live"
                /\ (hist[i].res = None /\ hist[i].post = hist[i].pre)
                       <=> (hist[i].pre + hist[i].n >= Length)

===========================================================================
